---- MODULE Spec2Model ----
(***************************************************************************)
(* Model selection for a word recogniser (recognizer/my_model_selectors.py) *)
(*                                                                         *)
(* One selector instance (SelectorConstant, SelectorBIC, SelectorDIC or    *)
(* SelectorCV) bound to one word.  The GaussianHMM trainer/scorer is an    *)
(* external, seeded and therefore deterministic collaborator: its outcome  *)
(* for every (data set, state count) it can be asked about is fixed in     *)
(* Init and never changes.  Each action is one whole call of select().     *)
(*                                                                         *)
(* Log-likelihoods are integers; BIC values are kept in thousandths so     *)
(* that ln(N) can be tabulated; a DIC value is kept as its numerator over  *)
(* the fixed denominator len(hwords) - 1; a cross-validation average is    *)
(* kept as the pair (sum, count) and compared by cross multiplication.     *)
(***************************************************************************)
EXTENDS Integers, Sequences, FiniteSets, TLC

\* ------------------------------------------------------------------ bounds
\* candidate state counts are drawn from 1..MaxN
MaxN == 2
\* feature dimensionality D is drawn from 1..MaxD
MaxD == 2
\* select() is called at most MaxCalls times on the instance
MaxCalls == 2

\* default of the n_constant parameter
DefaultNConstant == 3

NRange == 1..MaxN
\* numbers of utterance-sequences a word may have (1 is below KFold's minimum,
\* 2 gives two folds, 3 gives three)
SeqCounts == {1, 2, 3}
\* numbers of words other than this_word in all_word_Xlengths
OtherCounts == {0, 1, 2}
\* log-likelihood values the scorer may return
ScoreVals == {-5, 0}

\* ------------------------------------------------------- trainer outcomes
\* result of model.score(...): a value, or an exception
NoScore == [ok |-> FALSE, v |-> 0]
Scored(s) == [ok |-> TRUE, v |-> s]
ScoreResults == {NoScore} \cup {Scored(s) : s \in ScoreVals}

\* GaussianHMM(n).fit(data) raised
NoFit == [fit |-> FALSE, L |-> NoScore, others |-> << >>]
\* outcomes of fitting on a word's whole data: the fit fails, or it succeeds and
\* the model then scores the word's own data (L) and each other word's data
FullOutcomes(k) ==
    {NoFit} \cup
    {[fit |-> TRUE, L |-> l, others |-> o] : l \in ScoreResults, o \in [1..k -> ScoreResults]}
\* outcomes when only the fit is ever asked for
FitOnlyOutcomes == {NoFit, [fit |-> TRUE, L |-> NoScore, others |-> << >>]}

\* one cross-validation fold: fit on the training split, score the held-out split
FoldNoFit == [fit |-> FALSE, score |-> NoScore]
FoldOutcomes == {FoldNoFit} \cup {[fit |-> TRUE, score |-> s] : s \in ScoreResults}

VARIABLES
    strategy,           \* class of the selector instance
    n_constant,         \* self.n_constant
    min_n_components,   \* self.min_n_components
    max_n_components,   \* self.max_n_components
    nseq,               \* len(self.sequences)
    nothers,            \* len(self.hwords) - 1
    n_features,         \* model.n_features (D)
    flat,               \* observations held by all_word_Xlengths[this_word]:
                        \* "own" (the word's combined sequences) or "other"
    X,                  \* self.X, self.lengths: "flat" (as constructed) or "comb"
    hmm,                \* trainer on whole data: hmm[data][n]
    cv,                 \* trainer on folds: cv[n][fold]
    calls               \* outcomes of the select() calls made so far

vars == <<strategy, n_constant, min_n_components, max_n_components, nseq, nothers,
          n_features, flat, X, hmm, cv, calls>>

config == <<strategy, n_constant, min_n_components, max_n_components, nseq, nothers,
            n_features, flat, hmm, cv>>

\* ---------------------------------------------------------------- helpers
\* range(self.min_n_components, self.max_n_components + 1)
Candidates == min_n_components..max_n_components

\* variant: the handle made by __init__ always denotes other observations
DataOf_Stale(x) == IF x = "comb" THEN "own" ELSE "other"

\* the observations a data handle denotes
DataOf(x) == IF x = "comb" THEN "own" ELSE flat

\* combine_sequences(range(len(self.sequences)), self.sequences)
combine_sequences == "comb"

\* model handles
Unbound == [kind |-> "unbound", n |-> 0, fitted |-> FALSE, fold |-> 0]
None == [kind |-> "none", n |-> 0, fitted |-> FALSE, fold |-> 0]
Model(n, fitted, fold) == [kind |-> "model", n |-> n, fitted |-> fitted, fold |-> fold]

\* ModelSelector.base_model(num_states) with self.X = x: the fitted model, or None
base_model(x, num_states) ==
    IF hmm[DataOf(x)][num_states].fit THEN Model(num_states, TRUE, 0) ELSE None

\* what select() hands to its caller
Return(m, fits, visited, fallback) ==
    [kind |-> m.kind, n |-> m.n, fitted |-> m.fitted, fold |-> m.fold,
     fits |-> fits, visited |-> visited, fallback |-> fallback]
\* select() ended with an exception instead
Raise(fits, visited) ==
    [kind |-> "raise", n |-> 0, fitted |-> FALSE, fold |-> 0,
     fits |-> fits, visited |-> visited, fallback |-> FALSE]

\* variant: the constant selector fits min_n_components states
SelectorConstant_select_Min ==
    [out |-> Return(base_model(X, min_n_components), <<min_n_components>>, {}, FALSE), X |-> X]

\* --------------------------------------------------------- SelectorConstant
SelectorConstant_select ==
    [out |-> Return(base_model(X, n_constant), <<n_constant>>, {}, FALSE), X |-> X]

\* -------------------------------------------------------------- SelectorBIC
\* math.log(N), in thousandths
LogMilli(N) ==
    CASE N = 1 -> 0
      [] N = 2 -> 693
      [] N = 3 -> 1099
      [] N = 4 -> 1386

\* number of free parameters in the BIC penalty
FreeParams(n, D) == n * n + 2 * n * D - 1

\* -2 * logL + p * logN, in thousandths
BICValue(L, n, D, N) == -2000 * L + FreeParams(n, D) * LogMilli(N)

\* SelectorBIC.get_model_score(n) with self.X = x: the score, or an exception
\* (model is None after a failed fit, or model.score raises)
get_model_score(x, n) ==
    LET o == hmm[DataOf(x)][n] IN
    IF o.fit /\ o.L.ok
    THEN [ok |-> TRUE, v |-> BICValue(o.L.v, n, n_features, nseq)]
    ELSE [ok |-> FALSE, v |-> 0]

\* variant: the comparison keeps the highest score
BICBetter_Greater(score, st) == st.inf \/ score > st.best

\* model_score < best_score_so_far, best_score_so_far starting at float("Inf")
BICBetter(score, st) == st.inf \/ score < st.best

\* the loop of SelectorBIC.select from candidate n on
RECURSIVE BICLoop(_, _)
BICLoop(n, st) ==
    IF n > max_n_components THEN st
    ELSE LET sc == get_model_score(st.X, n)
             seen == [st EXCEPT !.fits = Append(@, n), !.visited = @ \cup {n}]
         IN IF ~sc.ok THEN [seen EXCEPT !.raised = TRUE]
            ELSE IF BICBetter(sc.v, st)
            THEN BICLoop(n + 1,
                     [seen EXCEPT !.X = combine_sequences,
                                  !.model = base_model(combine_sequences, n),
                                  !.fits = Append(@, n),
                                  !.inf = FALSE,
                                  !.best = sc.v])
            ELSE BICLoop(n + 1, seen)

\* variant: `model` is pre-bound, so an empty search does not raise
BICFallback_RaisedOnly(st) == st.raised

\* except Exception: the search raised, or `return model` found `model` unbound
\* (UnboundLocalError) because no candidate ever improved on float("Inf")
BICFallback(st) == st.raised \/ st.model.kind = "unbound"

\* SelectorBIC.select: any exception of the search ends in
\* base_model(self.n_constant)
SelectorBIC_select ==
    LET st == BICLoop(min_n_components,
                      [X |-> X, model |-> Unbound, inf |-> TRUE, best |-> 0,
                       fits |-> << >>, visited |-> {}, raised |-> FALSE])
    IN IF BICFallback(st)
       THEN [out |-> Return(base_model(st.X, n_constant),
                            Append(st.fits, n_constant), st.visited, TRUE),
             X |-> st.X]
       ELSE [out |-> Return(st.model, st.fits, st.visited, FALSE), X |-> st.X]

\* -------------------------------------------------------------- SelectorDIC
\* sc: the sum of hmm_model.score(x, lengths) over the other words, or an
\* exception when one of the scorings raises
RECURSIVE SumOthers(_, _)
SumOthers(o, k) ==
    IF k = 0 THEN [ok |-> TRUE, v |-> 0]
    ELSE LET rest == SumOthers(o, k - 1) IN
         IF rest.ok /\ o[k].ok THEN [ok |-> TRUE, v |-> rest.v + o[k].v]
         ELSE [ok |-> FALSE, v |-> 0]

\* variant: the mean over no other word counts as zero
DICValue_NoZeroCheck(nc) ==
    LET o == hmm[DataOf(X)][nc]
        sc == SumOthers(o.others, nothers)
    IN IF o.fit /\ o.L.ok /\ sc.ok
       THEN [ok |-> TRUE, v |-> o.L.v * nothers - sc.v]
       ELSE [ok |-> FALSE, v |-> 0]

\* the body of the try block for candidate nc: dic = logL - sc / (len(hwords) - 1),
\* returned as its numerator over the denominator nothers; any exception (fit,
\* score, division by zero) leaves ok = FALSE
DICValue(nc) ==
    LET o == hmm[DataOf(X)][nc]
        sc == SumOthers(o.others, nothers)
    IN IF o.fit /\ o.L.ok /\ sc.ok /\ nothers # 0
       THEN [ok |-> TRUE, v |-> o.L.v * nothers - sc.v]
       ELSE [ok |-> FALSE, v |-> 0]

\* variant: the comparison keeps the lowest value
DICBetter_Less(dic, st) == st.inf \/ dic < st.l

\* dic > l, l starting at -math.inf
DICBetter(dic, st) == st.inf \/ dic > st.l

\* the loop of SelectorDIC.select from candidate nc on
RECURSIVE DICLoop(_, _)
DICLoop(nc, st) ==
    IF nc > max_n_components THEN st
    ELSE LET d == DICValue(nc)
             seen == [st EXCEPT !.fits = Append(@, nc), !.visited = @ \cup {nc}]
         IN IF d.ok /\ DICBetter(d.v, st)
            THEN DICLoop(nc + 1, [seen EXCEPT !.inf = FALSE, !.l = d.v,
                                              !.model = Model(nc, TRUE, 0)])
            ELSE DICLoop(nc + 1, seen)

SelectorDIC_select ==
    LET st == DICLoop(min_n_components,
                      [model |-> None, inf |-> TRUE, l |-> 0,
                       fits |-> << >>, visited |-> {}])
    IN [out |-> Return(st.model, st.fits, st.visited, FALSE), X |-> X]

\* --------------------------------------------------------------- SelectorCV
\* n_split = 2 if len(self.sequences) < 3 else 3
n_split == IF nseq < 3 THEN 2 ELSE 3

\* KFold(n_splits).split(self.sequences) raises ValueError when there are fewer
\* samples than splits
SplitRaises == n_split > nseq

\* the fold loop of avg_score(n_comp) from fold i on: hmm_model is rebound to a
\* new, unfitted GaussianHMM before each fit
RECURSIVE FoldLoop(_, _, _)
FoldLoop(n_comp, i, st) ==
    IF i > n_split THEN st
    ELSE LET f == cv[n_comp][i]
             tried == [st EXCEPT !.fits = Append(@, n_comp)]
         IN IF ~f.fit
            THEN FoldLoop(n_comp, i + 1, [tried EXCEPT !.model = Model(n_comp, FALSE, i)])
            ELSE IF ~f.score.ok
            THEN FoldLoop(n_comp, i + 1, [tried EXCEPT !.model = Model(n_comp, TRUE, i)])
            ELSE FoldLoop(n_comp, i + 1,
                     [tried EXCEPT !.model = Model(n_comp, TRUE, i),
                                   !.sum = @ + f.score.v,
                                   !.cnt = @ + 1])

\* SelectorCV.avg_score(n_comp): (avg, hmm_model), avg = np.mean(scores) kept as
\* sum over cnt, or -math.inf when cnt = 0
avg_score(n_comp, fits) ==
    FoldLoop(n_comp, 1, [model |-> None, sum |-> 0, cnt |-> 0, fits |-> fits])

\* variant: an empty list of scores averages to the running best (>= for >)
CVBetter_NoEmptyCheck(a, st) ==
    \/ st.cnt = 0
    \/ a.cnt > 0 /\ a.sum * st.cnt > st.sum * a.cnt

\* score > lowest_score, lowest_score starting at -math.inf
CVBetter(a, st) ==
    /\ a.cnt > 0
    /\ \/ st.cnt = 0
       \/ a.sum * st.cnt > st.sum * a.cnt

\* the loop of SelectorCV.select from candidate n_comp on
RECURSIVE CVLoop(_, _)
CVLoop(n_comp, st) ==
    IF n_comp > max_n_components THEN st
    ELSE IF SplitRaises THEN [st EXCEPT !.raised = TRUE, !.visited = @ \cup {n_comp}]
    ELSE LET a == avg_score(n_comp, st.fits)
             seen == [st EXCEPT !.fits = a.fits, !.visited = @ \cup {n_comp}]
         IN IF CVBetter(a, st)
            THEN CVLoop(n_comp + 1, [seen EXCEPT !.sum = a.sum, !.cnt = a.cnt,
                                                 !.model = a.model])
            ELSE CVLoop(n_comp + 1, seen)

SelectorCV_select ==
    LET st == CVLoop(min_n_components,
                     [model |-> None, sum |-> 0, cnt |-> 0,
                      fits |-> << >>, visited |-> {}, raised |-> FALSE])
    IN IF st.raised
       THEN [out |-> Raise(st.fits, st.visited), X |-> X]
       ELSE [out |-> Return(st.model, st.fits, st.visited, FALSE), X |-> X]

\* ------------------------------------------------------------------- Init
\* a table over NRange that is t on the state counts in S and a failed fit on
\* the state counts the selector never asks about
Table(S, t) == [n \in NRange |-> IF n \in S THEN t[n] ELSE NoFit]
NoTable == [n \in NRange |-> NoFit]
NoFolds == [n \in NRange |-> << >>]

\* ModelSelector.__init__ for a SelectorConstant: only n_constant is ever fitted
InitConstant ==
    /\ strategy = "Constant"
    /\ n_constant \in NRange
    /\ min_n_components \in NRange
    /\ max_n_components \in NRange
    /\ nseq \in SeqCounts
    /\ nothers = 0
    /\ n_features = 1
    /\ flat = "own"
    /\ \E t \in [{n_constant} -> FitOnlyOutcomes] :
           hmm = [d \in {"own", "other"} |-> IF d = "own" THEN Table({n_constant}, t) ELSE NoTable]
    /\ cv = NoFolds

\* ModelSelector.__init__ for a SelectorBIC: the candidates are fitted and scored
\* on the word's combined sequences; all_word_Xlengths[this_word] is asked about
\* while self.X still refers to it, i.e. for the first candidate (fit and score)
\* and for n_constant (fit only)
InitBIC ==
    /\ strategy = "BIC"
    /\ n_constant \in NRange
    /\ min_n_components \in NRange
    /\ max_n_components \in NRange
    /\ nseq \in SeqCounts
    /\ nothers = 0
    /\ n_features \in 1..MaxD
    /\ flat \in {"own", "other"}
    /\ \E t \in [(min_n_components..max_n_components) \cup {n_constant} -> FullOutcomes(0)],
          u \in [{min_n_components} -> FullOutcomes(0)],
          f \in [{n_constant} \ {min_n_components} -> FitOnlyOutcomes] :
           hmm = [d \in {"own", "other"} |->
                    IF d = "own"
                    THEN Table((min_n_components..max_n_components) \cup {n_constant}, t)
                    ELSE [n \in NRange |-> IF n = min_n_components THEN u[n]
                                           ELSE IF n = n_constant THEN f[n]
                                           ELSE NoFit]]
    /\ cv = NoFolds

\* ModelSelector.__init__ for a SelectorDIC: only all_word_Xlengths is read, so
\* the number of sequences and the combined sequences play no part
InitDIC ==
    /\ strategy = "DIC"
    /\ n_constant = DefaultNConstant
    /\ min_n_components \in NRange
    /\ max_n_components \in NRange
    /\ nseq = 2
    /\ nothers \in OtherCounts
    /\ n_features = 1
    /\ flat = "own"
    /\ \E t \in [min_n_components..max_n_components -> FullOutcomes(nothers)] :
           hmm = [d \in {"own", "other"} |->
                    IF d = "own" THEN Table(min_n_components..max_n_components, t) ELSE NoTable]
    /\ cv = NoFolds

\* ModelSelector.__init__ for a SelectorCV: only self.sequences is read
InitCV ==
    /\ strategy = "CV"
    /\ n_constant = DefaultNConstant
    /\ min_n_components \in NRange
    /\ max_n_components \in NRange
    /\ nseq \in SeqCounts
    /\ nothers = 0
    /\ n_features = 1
    /\ flat = "own"
    /\ hmm = [d \in {"own", "other"} |-> NoTable]
    /\ \E c \in [min_n_components..max_n_components ->
                    [1..(IF nseq < n_split THEN 0 ELSE n_split) -> FoldOutcomes]] :
           cv = [n \in NRange |-> IF n \in min_n_components..max_n_components
                                  THEN c[n] ELSE << >>]

Init ==
    /\ X = "flat"
    /\ calls = << >>
    /\ \/ InitConstant
       \/ InitBIC
       \/ InitDIC
       \/ InitCV

\* ---------------------------------------------------------------- actions
\* one call of select() on the instance
Called(r) ==
    /\ Len(calls) < MaxCalls
    /\ LET done == r IN
           /\ calls' = Append(calls, done.out)
           /\ X' = done.X
    /\ UNCHANGED config

SelectConstant == strategy = "Constant" /\ Called(SelectorConstant_select)
SelectBIC == strategy = "BIC" /\ Called(SelectorBIC_select)
SelectDIC == strategy = "DIC" /\ Called(SelectorDIC_select)
SelectCV == strategy = "CV" /\ Called(SelectorCV_select)

Next ==
    \/ SelectConstant
    \/ SelectBIC
    \/ SelectDIC
    \/ SelectCV

Spec == Init /\ [][Next]_vars

\* ----------------------------------------------------------------- claims
\* calls only grows, so every call is the latest one in some reachable state: a
\* formula about the latest call speaks of every call
CallIds == {Len(calls)} \ {0}

\* the trainer's outcome for the word's combined sequences and n states
Own(n) == hmm["own"][n]

\* C1 -- the closed form -2*L(n) + (n^2 + 2*n*D - 1)*ln(N), in thousandths
ClosedFormBIC(n) ==
    -2000 * Own(n).L.v + (n * n + 2 * n * n_features - 1) * LogMilli(nseq)

BICSucceeded(n) == Own(n).fit /\ Own(n).L.ok

\* C1: with a consistent index, a non-empty range and every candidate fitted and
\* scored, every SelectorBIC.select() returns a fitted model whose state count
\* attains the minimum of the closed-form BIC over the range.
C1_BICReturnsMinimum ==
    \A i \in CallIds :
        (/\ strategy = "BIC"
         /\ flat = "own"
         /\ Candidates # {}
         /\ \A n \in Candidates : BICSucceeded(n))
        => /\ calls[i].kind = "model"
           /\ calls[i].fitted
           /\ calls[i].n \in Candidates
           /\ \A m \in Candidates : ClosedFormBIC(calls[i].n) <= ClosedFormBIC(m)

\* C1 witness: a search over several candidates, with a non-zero penalty, that
\* returned a candidate other than the first
C1_Witness ==
    /\ strategy = "BIC"
    /\ flat = "own"
    /\ nseq >= 2
    /\ Cardinality(Candidates) >= 2
    /\ \A n \in Candidates : BICSucceeded(n)
    /\ Len(calls) >= 1
    /\ calls[1].kind = "model"
    /\ calls[1].n # min_n_components
    /\ \E m \in Candidates : ClosedFormBIC(calls[1].n) < ClosedFormBIC(m)

\* C2: in SelectorBIC.select() a failed candidate is only skipped: the fallback
\* fit(n_constant) is the result only when every candidate fails, and otherwise
\* the result is the model of the lowest-BIC successful candidate.
C2_BICSkipsFailedCandidate ==
    \A i \in CallIds :
        (strategy = "BIC" /\ flat = "own")
        => /\ calls[i].fallback <=> (\A n \in Candidates : ~BICSucceeded(n))
           /\ (\E n \in Candidates : BICSucceeded(n))
              => /\ calls[i].kind = "model"
                 /\ BICSucceeded(calls[i].n)
                 /\ calls[i].n \in Candidates
                 /\ \A m \in Candidates :
                        BICSucceeded(m) => ClosedFormBIC(calls[i].n) <= ClosedFormBIC(m)

\* C3 -- a candidate for which DIC is defined: fit and every scoring succeeded
\* and there is another word to average over
RECURSIVE OthersTotal(_, _)
OthersTotal(n, w) == IF w = 0 THEN 0 ELSE Own(n).others[w].v + OthersTotal(n, w - 1)

DICSucceeded(n) ==
    /\ Own(n).fit
    /\ Own(n).L.ok
    /\ nothers >= 1
    /\ \A w \in 1..nothers : Own(n).others[w].ok

\* DIC(n) >= DIC(m), both sides multiplied by the number of other words
DICAtLeast(n, m) ==
    Own(n).L.v * nothers - OthersTotal(n, nothers)
        >= Own(m).L.v * nothers - OthersTotal(m, nothers)

\* C3: SelectorDIC.select() visits every candidate, returns none exactly when no
\* candidate succeeded, and otherwise returns the fitted model of a successful
\* candidate whose DIC is maximal among the successful ones.
C3_DICReturnsMaximum ==
    \A i \in CallIds :
        strategy = "DIC"
        => /\ calls[i].visited = Candidates
           /\ calls[i].kind = "none" <=> (\A n \in Candidates : ~DICSucceeded(n))
           /\ calls[i].kind # "none"
              => /\ calls[i].kind = "model"
                 /\ calls[i].fitted
                 /\ calls[i].n \in Candidates
                 /\ DICSucceeded(calls[i].n)
                 /\ \A m \in Candidates : DICSucceeded(m) => DICAtLeast(calls[i].n, m)

\* C3 witness: two other words with different scores, and an earlier successful
\* candidate that lost to the returned one
C3_Witness ==
    /\ strategy = "DIC"
    /\ nothers = 2
    /\ Len(calls) >= 1
    /\ calls[1].kind = "model"
    /\ Own(calls[1].n).others[1].v # Own(calls[1].n).others[2].v
    /\ \E m \in Candidates :
           m < calls[1].n /\ DICSucceeded(m) /\ ~DICAtLeast(m, calls[1].n)

\* C4 -- fold i of candidate n was fitted and scored
GoodFold(n, i) == cv[n][i].fit /\ cv[n][i].score.ok

\* the number of good folds among the first k folds of n, and their scores' total
RECURSIVE GoodCount(_, _)
GoodCount(n, k) ==
    IF k = 0 THEN 0 ELSE GoodCount(n, k - 1) + (IF GoodFold(n, k) THEN 1 ELSE 0)

RECURSIVE GoodTotal(_, _)
GoodTotal(n, k) ==
    IF k = 0 THEN 0
    ELSE GoodTotal(n, k - 1) + (IF GoodFold(n, k) THEN cv[n][k].score.v ELSE 0)

HasGoodFold(n) == \E i \in DOMAIN cv[n] : GoodFold(n, i)

\* C4: when the folds can be formed, SelectorCV.select() returns none if every
\* fold of every candidate fails, and otherwise a model of a candidate that has a
\* fitted and scored fold and whose average over its good folds alone is maximal;
\* a candidate whose folds all fail is never returned.
C4_CVNeverPicksAllFailed ==
    \A i \in CallIds :
        (strategy = "CV" /\ calls[i].kind # "raise")
        => /\ (\A n \in Candidates : ~HasGoodFold(n)) => calls[i].kind = "none"
           /\ (\E n \in Candidates : HasGoodFold(n)) => calls[i].kind = "model"
           /\ calls[i].kind = "model"
              => /\ calls[i].n \in Candidates
                 /\ HasGoodFold(calls[i].n)
                 /\ LET total == GoodTotal(calls[i].n, n_split)
                        count == GoodCount(calls[i].n, n_split)
                    IN \A m \in Candidates :
                           HasGoodFold(m)
                           => total * GoodCount(m, n_split) >= GoodTotal(m, n_split) * count

\* C4 witness: the first candidate lost every fold, the returned one lost some
C4_Witness ==
    /\ strategy = "CV"
    /\ Len(calls) >= 1
    /\ calls[1].kind = "model"
    /\ ~HasGoodFold(min_n_components)
    /\ calls[1].n # min_n_components
    /\ GoodCount(calls[1].n, n_split) < n_split

\* C5: a model returned by SelectorCV.select() is fitted, and it is the model of the
\* last fold of the winning candidate whose fit succeeded.
C5_CVReturnsFittedModel ==
    \A i \in CallIds :
        (strategy = "CV" /\ calls[i].kind = "model")
        => /\ calls[i].fitted
           /\ cv[calls[i].n][calls[i].fold].fit
           /\ \A j \in DOMAIN cv[calls[i].n] : cv[calls[i].n][j].fit => j <= calls[i].fold

\* C6: no call of select(), whatever the strategy, ends by raising.
C6_SelectNeverRaises ==
    \A i \in CallIds : calls[i].kind # "raise"

\* C7: SelectorConstant.select() asks the trainer once, for n_constant states, and
\* returns that fit's outcome: the fitted n_constant-state model, or none.
C7_ConstantFitsOnce ==
    \A i \in CallIds :
        strategy = "Constant"
        => /\ calls[i].fits = <<n_constant>>
           /\ IF hmm[flat][n_constant].fit
              THEN calls[i].kind = "model" /\ calls[i].n = n_constant /\ calls[i].fitted
              ELSE calls[i].kind = "none"

\* C7 witness: n_constant lies outside the search range and its model is returned
C7_Witness ==
    /\ strategy = "Constant"
    /\ n_constant \notin Candidates
    /\ Candidates # {}
    /\ Len(calls) >= 1
    /\ calls[1].kind = "model"

\* C8: with min_n_components > max_n_components SelectorBIC.select() evaluates no
\* candidate and returns what SelectorConstant.select() returns on the same data.
C8_BICEmptyRangeIsConstant ==
    \A i \in CallIds :
        (strategy = "BIC" /\ min_n_components > max_n_components)
        => /\ calls[i].visited = {}
           /\ calls[i].kind = SelectorConstant_select.out.kind
           /\ calls[i].n = SelectorConstant_select.out.n
           /\ calls[i].fitted = SelectorConstant_select.out.fitted
           /\ calls[i].kind \in {"model", "none"}

\* C8 witness: an empty range whose fallback fit succeeded
C8_Witness ==
    /\ strategy = "BIC"
    /\ min_n_components > max_n_components
    /\ Len(calls) >= 1
    /\ calls[1].kind = "model"
    /\ calls[1].n = n_constant

\* C9: when this_word is the only word of all_word_Xlengths, SelectorDIC.select()
\* visits the whole range, skips every candidate and returns none.
C9_DICSingleWordIsNone ==
    \A i \in CallIds :
        (strategy = "DIC" /\ nothers = 0)
        => /\ calls[i].kind = "none"
           /\ calls[i].visited = Candidates

\* C9 witness: a single word whose candidates were all fitted and scored
C9_Witness ==
    /\ strategy = "DIC"
    /\ nothers = 0
    /\ Cardinality(Candidates) >= 2
    /\ \A n \in Candidates : Own(n).fit /\ Own(n).L.ok
    /\ Len(calls) >= 1

\* C10: with a consistent index, any two calls of select() on the instance end the
\* same way: both return a model with the same state count, or both return none,
\* or both raise.
C10_SelectIsIdempotent ==
    \A i \in CallIds : \A j \in 1..i :
        flat = "own"
        => /\ calls[i].kind = calls[j].kind
           /\ calls[i].n = calls[j].n

\* C10 witness: a second SelectorBIC.select(), made after the first one has
\* rebound self.X to the combined sequences and returned a searched model
C10_Witness ==
    /\ strategy = "BIC"
    /\ flat = "own"
    /\ Len(calls) >= 2
    /\ X = "comb"
    /\ calls[1].kind = "model"
    /\ ~calls[1].fallback
    /\ Cardinality(Candidates) >= 2

====
